---- MODULE Spec2Model ----
(***************************************************************************)
(* Match-session coordinator of the 3D chess game (src/src/App.tsx).       *)
(*                                                                         *)
(* Two browser clients share one Room record in a realtime store.  Every   *)
(* client keeps a React mirror of the record (`room`), a local chess.js    *)
(* board (`chess`), a few refs and three timers (turn timer, heartbeat,    *)
(* disconnect scan).  Writes are unconditional whole-record replaces       *)
(* (set), narrow field writes (the heartbeat) or a delete (remove).  The   *)
(* store fans every new value out to the registered listeners; a listener  *)
(* receives the snapshots later, in order (inflight).                      *)
(*                                                                         *)
(* Time.  Every timestamp the code takes from Date.now() is kept as its    *)
(* age in seconds, Date.now() - t, so a fresh timestamp is 0 and all the   *)
(* code's duration tests (Date.now() - t > 20000, ...) read the field      *)
(* directly.  AdvanceClock ages every copy of every timestamp.  Ages       *)
(* saturate just above the largest duration the code compares them with,   *)
(* which keeps the state space finite without changing any comparison.     *)
(* A null timestamp is NoTime.                                             *)
(***************************************************************************)
EXTENDS Integers, Sequences, FiniteSets, TLC

(* ---------------- program constants (seconds) ---------------- *)
TurnSeconds == 30
HeartbeatPeriod == 3
ScanPeriod == 3
StaleSeconds == 20
ForfeitSeconds == 60
RecoverSeconds == 15

(* ---------------- bounds of the model ---------------- *)
BoardSize == 3
MaxInflight == 2
MaxMessages == 1
MaxStops == 1
MaxLag == 1
MaxRecorded == 2

(* ---------------- participants and values ---------------- *)
Creator == "u1"
Joiner == "u2"
Players == {Creator, Joiner}
(* a participant on a third client, which the model does not run *)
Other == "u3"
RoomCode == "12345"
Null == "null"
NoTime == -1
NoMove == <<>>
NoRoom == [absent |-> TRUE]
Squares == 1..BoardSize

Opposite(color) == IF color = "white" THEN "black" ELSE "white"
Letter(color) == IF color = "white" THEN "w" ELSE "b"
OtherRole(role) == IF role = "host" THEN "guest" ELSE "host"

(* ---------------- ages of timestamps ---------------- *)
TurnCap == TurnSeconds
ActiveCap == StaleSeconds + 1
DisconnectCap == ForfeitSeconds + 1
CreatedCap == HeartbeatPeriod

Aged(t, d, cap) == IF t = NoTime THEN NoTime ELSE IF t + d > cap THEN cap ELSE t + d

AgedRoom(r, d) ==
    IF r = NoRoom THEN NoRoom
    ELSE [r EXCEPT !.turnStartTime = Aged(@, d, TurnCap),
                   !.hostLastActive = Aged(@, d, ActiveCap),
                   !.guestLastActive = Aged(@, d, ActiveCap),
                   !.disconnectedAt = Aged(@, d, DisconnectCap),
                   !.createdAt = Aged(@, d, CreatedCap)]

AgedQueue(q, d) == [i \in 1..Len(q) |-> AgedRoom(q[i], d)]

(* ---------------- the move oracle (chess.js), on a small board ---------------- *)
(* One white and one black piece on a row of BoardSize squares; a piece    *)
(* steps to a neighbouring square and captures what stands there.  0 is a  *)
(* captured piece.  The side named by the position's turn field moves.     *)
InitialFen == [w |-> 1, b |-> BoardSize, turn |-> "w"]

PieceAt(f, s) == IF f.w = s THEN "w" ELSE IF f.b = s THEN "b" ELSE "none"

Moves(f) ==
    LET from == IF f.turn = "w" THEN f.w ELSE f.b
    IN  IF from = 0 THEN {}
        ELSE {<<from, to>> : to \in {from - 1, from + 1} \cap Squares}

MovesFrom(f, s) == {m[2] : m \in {x \in Moves(f) : x[1] = s}}

WithTurn(f, letter) == [f EXCEPT !.turn = letter]

(* remove the captured piece, remove the piece from `from`, put it on `to` *)
ForceMove(f, from, to) ==
    LET piece == PieceAt(f, from)
    IN  IF piece = "w"
        THEN [f EXCEPT !.w = to, !.b = IF f.b = to THEN 0 ELSE f.b]
        ELSE [f EXCEPT !.b = to, !.w = IF f.w = to THEN 0 ELSE f.w]

(* ---------------- state ---------------- *)
VARIABLES
    store,          \* the Room record kept by the store, or NoRoom
    inflight,       \* per client: snapshots fanned out by the store, not yet delivered
    listener,       \* per client: the onValue callback it registered ("none", "create", "join")
    room,           \* per client: React state `room` (the local mirror), or NoRoom
    isHost,         \* per client: React state `isHost`
    roomRef,        \* per client: roomRef.current is non-null
    chess,          \* per client: position held by the local chess.js object
    selectedSquare, \* per client: React state `selectedSquare` (0 is null)
    validMoves,     \* per client: React state `validMoves`
    showResult,     \* per client: React state `showResult`
    autoMovedRef,   \* per client: autoMovedRef.current
    hbTimer,        \* per client: seconds until the heartbeat interval fires (NoTime: none)
    scanTimer,      \* per client: seconds until the checkConnection interval fires
    alive,          \* per client: its event loop runs (tab in foreground, online)
    stops,          \* per client: how often its event loop has stopped so far
    leaving,        \* per client: handleGoHome awaits its write (the code after the
                    \* await has not run yet)
    lastMoves,      \* history: currentTurn stored by the last two move writes of this game
    autoCount,      \* history, per client: auto-move writes issued for the turnStartTime
                    \* in its mirror (2 stands for "more than one")
    recordUpdated,  \* per client: React state `recordUpdated`
    recordCount     \* history, per client: calls of updatePlayerRecord since its mirror
                    \* last showed a game starting (MaxRecorded stands for "or more")

vars == <<store, inflight, listener, room, isHost, roomRef, chess, selectedSquare,
          validMoves, showResult, autoMovedRef, hbTimer, scanTimer, alive, stops,
          leaving, lastMoves, autoCount, recordUpdated, recordCount>>

history == <<lastMoves, autoCount>>

records == <<recordUpdated, recordCount>>

localUI == <<selectedSquare, validMoves, showResult>>

env == <<alive, stops, leaving>>

(* the user of p can issue an intent: the event loop of p runs and no leave *)
(* of p awaits its write (no intent falls within that round trip)           *)
Acts(p) == alive[p] /\ ~leaving[p]

(* ---------------- the store adapter ---------------- *)
Push(q, v) == IF Len(q) < MaxInflight THEN Append(q, v) ELSE Append(Tail(q), v)

(* the value v reaches every registered listener's queue *)
Fanout(infl, v) ==
    [q \in Players |-> IF listener[q] # "none" THEN Push(infl[q], v) ELSE infl[q]]

(* set(roomRef, v) *)
Replace(v) ==
    /\ store' = v
    /\ inflight' = Fanout(inflight, v)

(* ---------------- derived React values ---------------- *)
(* getMyColor with the rule inverted, the winner of the previous game playing *)
(* white: a variant on which C9 must fail                                    *)
getMyColorWinnerWhite(r, host) ==
    IF r = NoRoom THEN "white"
    ELSE IF r.previousLoser = "host" THEN (IF host THEN "black" ELSE "white")
    ELSE IF r.previousLoser = "guest" THEN (IF host THEN "white" ELSE "black")
    ELSE (IF host THEN "white" ELSE "black")

(* getMyColor giving white to both sides after a game the guest lost: a *)
(* variant on which C40 must fail                                      *)
getMyColorBothWhite(r, host) ==
    IF r = NoRoom THEN "white"
    ELSE IF r.previousLoser = "host" THEN (IF host THEN "white" ELSE "black")
    ELSE IF r.previousLoser = "guest" THEN "white"
    ELSE (IF host THEN "white" ELSE "black")

(* getMyColor *)
getMyColor(r, host) ==
    IF r = NoRoom THEN "white"
    ELSE IF r.previousLoser = "host" THEN (IF host THEN "white" ELSE "black")
    ELSE IF r.previousLoser = "guest" THEN (IF host THEN "black" ELSE "white")
    ELSE (IF host THEN "white" ELSE "black")

(* isMyTurn without the comparison of colors: a variant on which C27 must fail *)
isMyTurnAnyColor(r, host) ==
    /\ r # NoRoom
    /\ r.status = "playing"

(* isMyTurn *)
isMyTurn(r, host) ==
    /\ r # NoRoom
    /\ r.status = "playing"
    /\ r.currentTurn = getMyColor(r, host)

MyRole(p) == IF isHost[p] THEN "host" ELSE "guest"

(* ---------------- effects re-run after a render ---------------- *)
HeartbeatDeps(r, host) ==
    IF r = NoRoom THEN <<Null, Null, host>> ELSE <<r.code, r.status, host>>

PresenceRuns(r, ref) ==
    /\ r # NoRoom
    /\ ref
    /\ r.status \in {"playing", "paused"}

(* heartbeat effect: deps [room?.code, room?.status, isHost]; sends at once *)
HeartbeatEffect(p, newRoom, newIsHost, newRef) ==
    IF HeartbeatDeps(room[p], isHost[p]) = HeartbeatDeps(newRoom, newIsHost)
    THEN hbTimer[p]
    ELSE IF PresenceRuns(newRoom, newRef) THEN 0 ELSE NoTime

(* connection check effect: deps [room, isHost]; every setRoom re-creates the interval *)
ScanEffect(newRoom, newRef) ==
    IF PresenceRuns(newRoom, newRef) THEN ScanPeriod ELSE NoTime

(* timer effect: deps include room; resets autoMovedRef while playing *)
TimerEffect(p, newRoom) ==
    IF newRoom # NoRoom /\ newRoom.status = "playing" /\ newRoom.turnStartTime # NoTime
    THEN FALSE
    ELSE autoMovedRef[p]

(* record effect: deps [room?.winner, room?.status, recordUpdated]; it calls  *)
(* updatePlayerRecord and sets recordUpdated when it sees a winner, and clears *)
(* recordUpdated when it sees playing.  Each change of recordUpdated re-runs   *)
(* it: on a record that is playing with a winner it never settles, and is     *)
(* interrupted by the next snapshot in either state of recordUpdated.          *)
RecordEffect(p, newRoom) ==
    IF newRoom # NoRoom /\ newRoom.winner # Null /\ newRoom.status = "playing"
    THEN /\ recordCount' = [recordCount EXCEPT ![p] = MaxRecorded]
         /\ \E flag \in BOOLEAN : recordUpdated' = [recordUpdated EXCEPT ![p] = flag]
    ELSE IF newRoom # NoRoom /\ newRoom.winner # Null
    THEN /\ recordCount' = [recordCount EXCEPT ![p] =
                               IF recordUpdated[p] \/ @ = MaxRecorded THEN @ ELSE @ + 1]
         /\ recordUpdated' = [recordUpdated EXCEPT ![p] = TRUE]
    ELSE IF newRoom # NoRoom /\ newRoom.status = "playing"
    THEN /\ recordCount' = [recordCount EXCEPT ![p] = 0]
         /\ recordUpdated' = [recordUpdated EXCEPT ![p] = FALSE]
    ELSE UNCHANGED records

Effects(p, newRoom, newIsHost, newRef) ==
    /\ hbTimer' = [hbTimer EXCEPT ![p] = HeartbeatEffect(p, newRoom, newIsHost, newRef)]
    /\ scanTimer' = [scanTimer EXCEPT ![p] = ScanEffect(newRoom, newRef)]
    /\ autoMovedRef' = [autoMovedRef EXCEPT ![p] = TimerEffect(p, newRoom)]
    /\ RecordEffect(p, newRoom)

(* history: the auto-move writes p has issued for the turnStartTime of its mirror, *)
(* once the mirror becomes newRoom                                                *)
Observed(p, newRoom) ==
    IF room[p] # NoRoom /\ newRoom # NoRoom /\ newRoom.turnStartTime = room[p].turnStartTime
    THEN autoCount[p]
    ELSE 0

(* ---------------- initial state: both clients in the lobby ---------------- *)
Init ==
    /\ store = NoRoom
    /\ inflight = [p \in Players |-> <<>>]
    /\ listener = [p \in Players |-> "none"]
    /\ room = [p \in Players |-> NoRoom]
    /\ isHost = [p \in Players |-> FALSE]
    /\ roomRef = [p \in Players |-> FALSE]
    /\ chess = [p \in Players |-> InitialFen]
    /\ selectedSquare = [p \in Players |-> 0]
    /\ validMoves = [p \in Players |-> {}]
    /\ showResult = [p \in Players |-> FALSE]
    /\ autoMovedRef = [p \in Players |-> FALSE]
    /\ hbTimer = [p \in Players |-> NoTime]
    /\ scanTimer = [p \in Players |-> NoTime]
    /\ alive = [p \in Players |-> TRUE]
    /\ stops = [p \in Players |-> 0]
    /\ leaving = [p \in Players |-> FALSE]
    /\ lastMoves = <<Null, Null>>
    /\ autoCount = [p \in Players |-> 0]
    /\ recordUpdated = [p \in Players |-> FALSE]
    /\ recordCount = [p \in Players |-> 0]

(* ---------------- createRoom ---------------- *)
NewRoom(p, private) ==
    [code |-> RoomCode, hostId |-> p, guestId |-> Null, guestReady |-> FALSE,
     status |-> "waiting", currentTurn |-> "white", turnStartTime |-> 0,
     fen |-> chess[p], lastMove |-> NoMove, winner |-> Null, previousLoser |-> Null,
     hostLastActive |-> 0, guestLastActive |-> ActiveCap,
     disconnectedPlayer |-> Null, disconnectedAt |-> NoTime,
     isPrivate |-> private, createdAt |-> 0, messages |-> <<>>]

(* the Lobby is rendered while `room` is null; the code is fresh *)
createRoom(p, private) ==
    /\ Acts(p)
    /\ p = Creator
    /\ room[p] = NoRoom
    /\ listener[p] = "none"
    /\ store = NoRoom
    /\ store' = NewRoom(p, private)
    /\ roomRef' = [roomRef EXCEPT ![p] = TRUE]
    /\ room' = [room EXCEPT ![p] = NewRoom(p, private)]
    /\ isHost' = [isHost EXCEPT ![p] = TRUE]
    /\ listener' = [listener EXCEPT ![p] = "create"]
    \* onValue delivers the current value to the new listener
    /\ inflight' = [q \in Players |->
                      IF q = p \/ listener[q] # "none"
                      THEN Push(inflight[q], NewRoom(p, private))
                      ELSE inflight[q]]
    /\ Effects(p, NewRoom(p, private), TRUE, TRUE)
    /\ lastMoves' = <<Null, Null>>
    /\ autoCount' = [autoCount EXCEPT ![p] = 0]
    /\ UNCHANGED <<chess, localUI, env>>

(* ---------------- joinRoom ---------------- *)
(* registers the listener; the join itself is done by the listener *)
joinRoom(p) ==
    /\ Acts(p)
    /\ room[p] = NoRoom
    /\ listener[p] = "none"
    /\ roomRef' = [roomRef EXCEPT ![p] = TRUE]
    /\ listener' = [listener EXCEPT ![p] = "join"]
    /\ inflight' = [inflight EXCEPT ![p] = Push(@, store)]
    /\ UNCHANGED <<store, room, isHost, chess, localUI, autoMovedRef, hbTimer,
                   scanTimer, env, records, history>>

(* the join write without the reset of status: a variant on which C14 must fail *)
JoinedRoomKeepsStatus(data, p) ==
    [data EXCEPT !.guestId = p, !.guestReady = FALSE, !.guestLastActive = 0]

JoinedRoom(data, p) ==
    [data EXCEPT !.guestId = p, !.guestReady = FALSE, !.status = "waiting",
                 !.guestLastActive = 0]

(* ---------------- the onValue callbacks ---------------- *)
(* callback registered by createRoom *)
HostListener(p, data) ==
    IF data # NoRoom
    THEN /\ room' = [room EXCEPT ![p] = data]
         /\ chess' = [chess EXCEPT ![p] = data.fen]
         /\ showResult' = [showResult EXCEPT ![p] = IF data.winner # Null THEN TRUE ELSE @]
         /\ Effects(p, data, isHost[p], roomRef[p])
         /\ autoCount' = [autoCount EXCEPT ![p] = Observed(p, data)]
         /\ inflight' = [inflight EXCEPT ![p] = Tail(@)]
         /\ UNCHANGED <<store, listener, isHost, roomRef, selectedSquare, validMoves,
                        env, lastMoves>>
    ELSE /\ inflight' = [inflight EXCEPT ![p] = Tail(@)]
         /\ UNCHANGED <<store, listener, room, isHost, roomRef, chess, localUI,
                        autoMovedRef, hbTimer, scanTimer, env, records, history>>

(* callback registered by joinRoom *)
JoinListener(p, data) ==
    IF data = NoRoom \/ (data.guestId # Null /\ data.guestId # p)
    THEN \* room not found / room is full: off(roomRef.current!)
         /\ listener' = [listener EXCEPT ![p] = IF roomRef[p] THEN "none" ELSE @]
         /\ inflight' = [inflight EXCEPT ![p] = IF roomRef[p] THEN <<>> ELSE Tail(@)]
         /\ UNCHANGED <<store, room, isHost, roomRef, chess, localUI, autoMovedRef,
                        hbTimer, scanTimer, env, records, history>>
    ELSE IF data.guestId = Null
    THEN \* join: set(roomRef.current!, updatedRoom), no setRoom
         /\ IF roomRef[p]
            THEN /\ store' = JoinedRoom(data, p)
                 /\ inflight' = Fanout([inflight EXCEPT ![p] = Tail(@)], JoinedRoom(data, p))
            ELSE /\ inflight' = [inflight EXCEPT ![p] = Tail(@)]
                 /\ UNCHANGED store
         /\ UNCHANGED <<listener, room, isHost, roomRef, chess, localUI, autoMovedRef,
                        hbTimer, scanTimer, env, records, history>>
    ELSE /\ room' = [room EXCEPT ![p] = data]
         /\ isHost' = [isHost EXCEPT ![p] = FALSE]
         /\ chess' = [chess EXCEPT ![p] = data.fen]
         /\ Effects(p, data, FALSE, roomRef[p])
         /\ autoCount' = [autoCount EXCEPT ![p] = Observed(p, data)]
         /\ inflight' = [inflight EXCEPT ![p] = Tail(@)]
         /\ UNCHANGED <<store, listener, roomRef, localUI, env, lastMoves>>

(* the store delivers the oldest undelivered snapshot to p's listener *)
Deliver(p) ==
    /\ alive[p]
    /\ listener[p] # "none"
    /\ inflight[p] # <<>>
    /\ IF listener[p] = "create"
       THEN HostListener(p, Head(inflight[p]))
       ELSE JoinListener(p, Head(inflight[p]))

(* what the game screen renders: not the lobby, not the host's waiting screen *)
GameScreen(p) ==
    /\ room[p] # NoRoom
    /\ ~(isHost[p] /\ room[p].guestId = Null)

(* ---------------- handleGuestReady ---------------- *)
(* the ready write making the room public: a variant on which C23 must fail *)
ReadyRoomPublic(r) == [r EXCEPT !.guestReady = TRUE, !.status = "ready", !.isPrivate = FALSE]

ReadyRoom(r) == [r EXCEPT !.guestReady = TRUE, !.status = "ready"]

(* the ready button is rendered outside playing, to the guest, while guestReady is not true *)
ReadyButton(p) ==
    /\ GameScreen(p)
    /\ room[p].status # "playing"
    /\ ~isHost[p]
    /\ room[p].guestReady # TRUE

(* the handler, with the guards of the code alone *)
handleGuestReady(p) ==
    /\ Acts(p)
    /\ room[p] # NoRoom
    /\ roomRef[p]
    /\ ~isHost[p]
    /\ Replace(ReadyRoom(room[p]))
    /\ UNCHANGED <<listener, room, isHost, roomRef, chess, localUI, autoMovedRef,
                   hbTimer, scanTimer, env, records, history>>

(* ---------------- handleStartGame ---------------- *)
(* the start write without a fresh turnStartTime: a variant on which C10 must fail *)
StartedRoomKeepsClock(r) == [r EXCEPT !.status = "playing"]

StartedRoom(r) == [r EXCEPT !.status = "playing", !.turnStartTime = 0]

(* the start button is rendered outside playing, to the host, once guestReady is true *)
handleStartGame(p) ==
    /\ Acts(p)
    /\ GameScreen(p)
    /\ room[p].status # "playing"
    /\ isHost[p]
    /\ room[p].guestReady = TRUE
    /\ roomRef[p]
    /\ Replace(StartedRoom(room[p]))
    /\ lastMoves' = <<Null, Null>>
    /\ UNCHANGED <<listener, room, isHost, roomRef, chess, localUI, autoMovedRef,
                   hbTimer, scanTimer, env, records, autoCount>>

(* ---------------- handleMove / handleSquareClick ---------------- *)
(* the move write without the change of currentTurn: a variant on which C5 must fail *)
MovedRoomKeepsTurn(r, newFen, from, to) ==
    [r EXCEPT !.fen = newFen, !.turnStartTime = 0, !.lastMove = <<from, to>>,
              !.status = "playing", !.winner = Null]

MovedRoom(r, newFen, from, to) ==
    [r EXCEPT !.fen = newFen, !.currentTurn = Opposite(r.currentTurn),
              !.turnStartTime = 0, !.lastMove = <<from, to>>,
              !.status = "playing", !.winner = Null]

(* position after the forced move, with the turn field set from room.currentTurn *)
MoveFen(f, r, from, to) ==
    WithTurn(ForceMove(f, from, to), Letter(Opposite(r.currentTurn)))

handleMove(p, from, to) ==
    IF PieceAt(chess[p], from) = "none"
    THEN UNCHANGED vars
    ELSE /\ chess' = [chess EXCEPT ![p] = MoveFen(@, room[p], from, to)]
         /\ selectedSquare' = [selectedSquare EXCEPT ![p] = 0]
         /\ validMoves' = [validMoves EXCEPT ![p] = {}]
         /\ IF roomRef[p]
            THEN /\ Replace(MovedRoom(room[p], MoveFen(chess[p], room[p], from, to), from, to))
                 /\ lastMoves' = <<lastMoves[2], Opposite(room[p].currentTurn)>>
            ELSE UNCHANGED <<store, inflight, lastMoves>>
         /\ UNCHANGED <<listener, room, isHost, roomRef, showResult, autoMovedRef,
                        hbTimer, scanTimer, env, records, autoCount>>

OwnPiece(p, square) ==
    \/ PieceAt(chess[p], square) = "w" /\ getMyColor(room[p], isHost[p]) = "white"
    \/ PieceAt(chess[p], square) = "b" /\ getMyColor(room[p], isHost[p]) = "black"

SelectSquare(p, square) ==
    /\ selectedSquare' = [selectedSquare EXCEPT ![p] = square]
    /\ validMoves' = [validMoves EXCEPT ![p] = MovesFrom(chess[p], square)]
    /\ UNCHANGED <<store, inflight, listener, room, isHost, roomRef, chess, showResult,
                   autoMovedRef, hbTimer, scanTimer, env, records, history>>

ClearSelection(p) ==
    /\ selectedSquare' = [selectedSquare EXCEPT ![p] = 0]
    /\ validMoves' = [validMoves EXCEPT ![p] = {}]
    /\ UNCHANGED <<store, inflight, listener, room, isHost, roomRef, chess, showResult,
                   autoMovedRef, hbTimer, scanTimer, env, records, history>>

handleSquareClick(p, square) ==
    /\ Acts(p)
    /\ GameScreen(p)
    /\ room[p].status = "playing"
    /\ isMyTurn(room[p], isHost[p])
    /\ IF selectedSquare[p] # 0
       THEN IF square \in validMoves[p]
            THEN handleMove(p, selectedSquare[p], square)
            ELSE IF OwnPiece(p, square) THEN SelectSquare(p, square) ELSE ClearSelection(p)
       ELSE IF OwnPiece(p, square) THEN SelectSquare(p, square) ELSE UNCHANGED vars

(* ---------------- timer effect: updateTimer ---------------- *)
TimerRuns(r) == r # NoRoom /\ r.status = "playing" /\ r.turnStartTime # NoTime

(* remaining = max(0, 30 - elapsed) *)
Remaining(r) == IF TurnSeconds - r.turnStartTime > 0 THEN TurnSeconds - r.turnStartTime ELSE 0

AutoMoveDue(p) ==
    /\ Remaining(room[p]) = 0
    /\ isMyTurn(room[p], isHost[p])
    /\ ~autoMovedRef[p]

(* the local position with the turn field forced to my color *)
MyFen(p) == WithTurn(chess[p], Letter(getMyColor(room[p], isHost[p])))

(* a tick of the 1 s interval (or the call made when the effect re-runs) that finds *)
(* the turn clock expired; other ticks only refresh the displayed time              *)
updateTimer(p) ==
    /\ alive[p]
    /\ TimerRuns(room[p])
    /\ AutoMoveDue(p)
    /\ autoMovedRef' = [autoMovedRef EXCEPT ![p] = TRUE]
    /\ IF Moves(MyFen(p)) = {}
       THEN /\ chess' = [chess EXCEPT ![p] = MyFen(p)]
            /\ UNCHANGED <<store, inflight, selectedSquare, validMoves, history>>
       ELSE \E m \in Moves(MyFen(p)) :
            /\ chess' = [chess EXCEPT ![p] = MoveFen(MyFen(p), room[p], m[1], m[2])]
            /\ selectedSquare' = [selectedSquare EXCEPT ![p] = 0]
            /\ validMoves' = [validMoves EXCEPT ![p] = {}]
            /\ Replace(MovedRoom(room[p], MoveFen(MyFen(p), room[p], m[1], m[2]), m[1], m[2]))
            /\ lastMoves' = <<lastMoves[2], Opposite(room[p].currentTurn)>>
            /\ autoCount' = [autoCount EXCEPT ![p] = IF @ = 0 THEN 1 ELSE 2]
    /\ UNCHANGED <<listener, room, isHost, roomRef, showResult, hbTimer, scanTimer,
                   env, records>>

(* ---------------- a move write that the store rejects ---------------- *)
(* handleMove when set(...) rejects: the catch block logs the error; the   *)
(* local position was changed before the write and is not restored         *)
handleMoveRejected(p, from, to) ==
    /\ PieceAt(chess[p], from) # "none"
    /\ roomRef[p]
    /\ chess' = [chess EXCEPT ![p] = MoveFen(@, room[p], from, to)]
    /\ selectedSquare' = [selectedSquare EXCEPT ![p] = 0]
    /\ validMoves' = [validMoves EXCEPT ![p] = {}]
    /\ UNCHANGED <<store, inflight, listener, room, isHost, roomRef, showResult,
                   autoMovedRef, hbTimer, scanTimer, env, records, history>>

(* the click that completes a move whose write is rejected *)
handleSquareClickRejected(p, square) ==
    /\ Acts(p)
    /\ GameScreen(p)
    /\ room[p].status = "playing"
    /\ isMyTurn(room[p], isHost[p])
    /\ selectedSquare[p] # 0
    /\ square \in validMoves[p]
    /\ handleMoveRejected(p, selectedSquare[p], square)

(* updateTimer when the set(...) of the auto-move rejects: the promise is  *)
(* not awaited; autoMovedRef was set and the position changed before it    *)
updateTimerRejected(p) ==
    /\ alive[p]
    /\ TimerRuns(room[p])
    /\ AutoMoveDue(p)
    /\ autoMovedRef' = [autoMovedRef EXCEPT ![p] = TRUE]
    /\ \E m \in Moves(MyFen(p)) :
            /\ chess' = [chess EXCEPT ![p] = MoveFen(MyFen(p), room[p], m[1], m[2])]
            /\ selectedSquare' = [selectedSquare EXCEPT ![p] = 0]
            /\ validMoves' = [validMoves EXCEPT ![p] = {}]
    /\ UNCHANGED <<store, inflight, listener, room, isHost, roomRef, showResult,
                   hbTimer, scanTimer, env, records, history>>

(* ---------------- handleResign / handleGoHome ---------------- *)
(* the forfeit write naming the loser as the winner: a variant on which C12 *)
(* must fail                                                               *)
LostRoomWinnerIsLoser(r, loser) ==
    [r EXCEPT !.status = "finished", !.winner = loser, !.previousLoser = loser]

LostRoom(r, loser) ==
    [r EXCEPT !.status = "finished", !.winner = OtherRole(loser), !.previousLoser = loser]

(* the resign button is rendered while playing; the confirm dialog is accepted *)
handleResign(p) ==
    /\ Acts(p)
    /\ GameScreen(p)
    /\ room[p].status = "playing"
    /\ roomRef[p]
    /\ Replace(LostRoom(room[p], MyRole(p)))
    /\ UNCHANGED <<listener, room, isHost, roomRef, chess, localUI, autoMovedRef,
                   hbTimer, scanTimer, env, records, history>>

GuestLeftRoom(r) == [r EXCEPT !.guestId = Null, !.guestReady = FALSE]

(* a leave that, in a paused game, forfeits the side marked disconnected    *)
(* instead of the leaver: a variant on which C13 must fail                  *)
GoHomeWriteDisconnectedLoses(p) ==
    IF room[p].status = "paused"
    THEN LostRoom(room[p], room[p].disconnectedPlayer)
    ELSE IF room[p].status = "playing"
    THEN LostRoom(room[p], MyRole(p))
    ELSE IF isHost[p] THEN NoRoom ELSE GuestLeftRoom(room[p])

(* what handleGoHome writes: the forfeit, the delete, or the guest's withdrawal *)
GoHomeWrite(p) ==
    IF room[p].status \in {"playing", "paused"}
    THEN LostRoom(room[p], MyRole(p))
    ELSE IF isHost[p] THEN NoRoom ELSE GuestLeftRoom(room[p])

(* the home button is rendered on the host's waiting screen and while playing *)
HomeButton(p) ==
    /\ room[p] # NoRoom
    /\ (isHost[p] /\ room[p].guestId = Null) \/ room[p].status = "playing"

(* up to the await: the write is issued *)
handleGoHome(p) ==
    /\ Acts(p)
    /\ room[p] # NoRoom
    /\ roomRef[p]
    /\ Replace(GoHomeWrite(p))
    /\ leaving' = [leaving EXCEPT ![p] = TRUE]
    /\ UNCHANGED <<listener, room, isHost, roomRef, chess, localUI, autoMovedRef,
                   hbTimer, scanTimer, alive, stops, records, history>>

(* after the await: back to the lobby *)
handleGoHomeDone(p) ==
    /\ alive[p]
    /\ leaving[p]
    /\ leaving' = [leaving EXCEPT ![p] = FALSE]
    /\ room' = [room EXCEPT ![p] = NoRoom]
    /\ isHost' = [isHost EXCEPT ![p] = FALSE]
    /\ showResult' = [showResult EXCEPT ![p] = FALSE]
    /\ selectedSquare' = [selectedSquare EXCEPT ![p] = 0]
    /\ validMoves' = [validMoves EXCEPT ![p] = {}]
    /\ chess' = [chess EXCEPT ![p] = InitialFen]
    /\ roomRef' = [roomRef EXCEPT ![p] = FALSE]
    /\ Effects(p, NoRoom, FALSE, FALSE)
    /\ autoCount' = [autoCount EXCEPT ![p] = 0]
    /\ UNCHANGED <<store, inflight, listener, alive, stops, lastMoves>>

(* ---------------- cleanup on unmount ---------------- *)
(* the App of p is torn down with a room open: the cleanup of the effect    *)
(* removes the record when p is the host; the page and its listener are gone *)
unmount(p) ==
    /\ alive[p]
    /\ roomRef[p]
    /\ IF isHost[p]
       THEN /\ store' = NoRoom
            /\ inflight' = [Fanout(inflight, NoRoom) EXCEPT ![p] = <<>>]
       ELSE /\ store' = store
            /\ inflight' = [inflight EXCEPT ![p] = <<>>]
    /\ listener' = [listener EXCEPT ![p] = "none"]
    /\ room' = [room EXCEPT ![p] = NoRoom]
    /\ isHost' = [isHost EXCEPT ![p] = FALSE]
    /\ roomRef' = [roomRef EXCEPT ![p] = FALSE]
    /\ chess' = [chess EXCEPT ![p] = InitialFen]
    /\ selectedSquare' = [selectedSquare EXCEPT ![p] = 0]
    /\ validMoves' = [validMoves EXCEPT ![p] = {}]
    /\ showResult' = [showResult EXCEPT ![p] = FALSE]
    /\ autoMovedRef' = [autoMovedRef EXCEPT ![p] = FALSE]
    /\ hbTimer' = [hbTimer EXCEPT ![p] = NoTime]
    /\ scanTimer' = [scanTimer EXCEPT ![p] = NoTime]
    /\ autoCount' = [autoCount EXCEPT ![p] = 0]
    /\ recordUpdated' = [recordUpdated EXCEPT ![p] = FALSE]
    /\ leaving' = [leaving EXCEPT ![p] = FALSE]
    /\ UNCHANGED <<alive, stops, lastMoves, recordCount>>

(* ---------------- handlePlayAgain ---------------- *)
(* the play-again write without the reset of currentTurn: a variant on which *)
(* C11 must fail                                                            *)
PlayAgainRoomKeepsTurn(r) ==
    [r EXCEPT !.fen = InitialFen, !.turnStartTime = 0,
              !.lastMove = NoMove, !.status = "playing", !.winner = Null]

PlayAgainRoom(r) ==
    [r EXCEPT !.fen = InitialFen, !.currentTurn = "white", !.turnStartTime = 0,
              !.lastMove = NoMove, !.status = "playing", !.winner = Null]

(* the result popup is rendered while showResult and room.winner *)
handlePlayAgain(p) ==
    /\ Acts(p)
    /\ GameScreen(p)
    /\ showResult[p]
    /\ room[p].winner # Null
    /\ roomRef[p]
    /\ chess' = [chess EXCEPT ![p] = InitialFen]
    /\ Replace(PlayAgainRoom(room[p]))
    /\ showResult' = [showResult EXCEPT ![p] = FALSE]
    /\ selectedSquare' = [selectedSquare EXCEPT ![p] = 0]
    /\ validMoves' = [validMoves EXCEPT ![p] = {}]
    /\ lastMoves' = <<Null, Null>>
    /\ UNCHANGED <<listener, room, isHost, roomRef, autoMovedRef, hbTimer, scanTimer,
                   env, records, autoCount>>

(* ---------------- handleSendMessage ---------------- *)
ChatRoom(r, p) == [r EXCEPT !.messages = Append(@, [senderId |-> p])]

handleSendMessage(p) ==
    /\ Acts(p)
    /\ GameScreen(p)
    /\ roomRef[p]
    /\ Len(room[p].messages) < MaxMessages
    /\ Replace(ChatRoom(room[p], p))
    /\ UNCHANGED <<listener, room, isHost, roomRef, chess, localUI, autoMovedRef,
                   hbTimer, scanTimer, env, records, history>>

(* ---------------- heartbeat effect: sendHeartbeat ---------------- *)
(* set(ref(db, rooms/code/<field>), Date.now()): a write of one field *)
HeartbeatWrite(r, role) ==
    IF r = NoRoom
    THEN [absent |-> FALSE, lastActive |-> role]
    ELSE IF role = "host"
    THEN [r EXCEPT !.hostLastActive = 0]
    ELSE [r EXCEPT !.guestLastActive = 0]

sendHeartbeat(p) ==
    /\ alive[p]
    /\ hbTimer[p] = 0
    /\ hbTimer' = [hbTimer EXCEPT ![p] = HeartbeatPeriod]
    /\ IF roomRef[p]
       THEN Replace(HeartbeatWrite(store, MyRole(p)))
       ELSE UNCHANGED <<store, inflight>>
    /\ UNCHANGED <<listener, room, isHost, roomRef, chess, localUI, autoMovedRef,
                   scanTimer, env, records, history>>

(* ---------------- connection check effect: checkConnection ---------------- *)
OpponentLastActive(r, host) == IF host THEN r.guestLastActive ELSE r.hostLastActive

PausedRoom(r, host) ==
    [r EXCEPT !.status = "paused",
              !.disconnectedPlayer = IF host THEN "guest" ELSE "host",
              !.disconnectedAt = 0]

(* the forfeit write with the winner taken from the writer instead of the *)
(* record: a variant on which C29 must fail                               *)
ForfeitRoomWriterWins(r, host) ==
    [r EXCEPT !.status = "finished",
              !.winner = IF host THEN "host" ELSE "guest",
              !.previousLoser = IF host THEN "guest" ELSE "host",
              !.disconnectedPlayer = Null,
              !.disconnectedAt = NoTime]

ForfeitRoom(r) ==
    [r EXCEPT !.status = "finished",
              !.winner = IF r.disconnectedPlayer = "host" THEN "guest" ELSE "host",
              !.previousLoser = r.disconnectedPlayer,
              !.disconnectedPlayer = Null,
              !.disconnectedAt = NoTime]

ResumedRoom(r) ==
    [r EXCEPT !.status = "playing", !.disconnectedPlayer = Null, !.disconnectedAt = NoTime]

PeerStale(r, host) ==
    /\ OpponentLastActive(r, host) > StaleSeconds
    /\ r.status = "playing"
    /\ r.disconnectedPlayer = Null

ForfeitDue(r) ==
    /\ r.status = "paused"
    /\ r.disconnectedAt # NoTime
    /\ r.disconnectedAt > ForfeitSeconds

PeerRecovered(r, host) ==
    /\ r.status = "paused"
    /\ OpponentLastActive(r, host) < RecoverSeconds
    /\ r.disconnectedPlayer # Null

(* the run of checkConnection with the forfeit decided by the writer *)
ScanWritesWriterWins(r, host) ==
    (IF PeerStale(r, host) THEN <<PausedRoom(r, host)>> ELSE <<>>)
    \o (IF ForfeitDue(r) THEN <<ForfeitRoomWriterWins(r, host)>> ELSE <<>>)
    \o (IF PeerRecovered(r, host) THEN <<ResumedRoom(r)>> ELSE <<>>)

(* the replaces one run of checkConnection issues, in order, all built from `room` *)
ScanWrites(r, host) ==
    (IF PeerStale(r, host) THEN <<PausedRoom(r, host)>> ELSE <<>>)
    \o (IF ForfeitDue(r) THEN <<ForfeitRoom(r)>> ELSE <<>>)
    \o (IF PeerRecovered(r, host) THEN <<ResumedRoom(r)>> ELSE <<>>)

RECURSIVE FanoutAll(_, _)
FanoutAll(infl, ws) ==
    IF ws = <<>> THEN infl ELSE FanoutAll(Fanout(infl, Head(ws)), Tail(ws))

checkConnection(p) ==
    /\ alive[p]
    /\ scanTimer[p] = 0
    /\ scanTimer' = [scanTimer EXCEPT ![p] = ScanPeriod]
    /\ IF roomRef[p] /\ ScanWrites(room[p], isHost[p]) # <<>>
       THEN LET ws == ScanWrites(room[p], isHost[p])
            IN  /\ store' = ws[Len(ws)]
                /\ inflight' = FanoutAll(inflight, ws)
       ELSE UNCHANGED <<store, inflight>>
    /\ UNCHANGED <<listener, room, isHost, roomRef, chess, localUI, autoMovedRef,
                   hbTimer, env, records, history>>

(* ---------------- the clock ---------------- *)
ClockSteps == {HeartbeatPeriod}

Countdown(t, d) == IF t = NoTime THEN NoTime ELSE IF t - d < 0 THEN 0 ELSE t - d

(* an armed interval of a running client fires before time passes it, and a *)
(* snapshot reaches a running client within one step of the clock           *)
NothingDue(d) ==
    \A p \in Players :
        alive[p] => /\ hbTimer[p] = NoTime \/ d <= hbTimer[p]
                    /\ scanTimer[p] = NoTime \/ d <= scanTimer[p]
                    /\ inflight[p] = <<>>

AdvanceClock(d) ==
    /\ NothingDue(d)
    /\ store' = AgedRoom(store, d)
    /\ inflight' = [p \in Players |-> AgedQueue(inflight[p], d)]
    /\ room' = [p \in Players |-> AgedRoom(room[p], d)]
    /\ hbTimer' = [p \in Players |-> Countdown(hbTimer[p], d)]
    /\ scanTimer' = [p \in Players |-> Countdown(scanTimer[p], d)]
    /\ UNCHANGED <<listener, isHost, roomRef, chess, localUI, autoMovedRef, env, records,
                   history>>

(* ---------------- the environment: a client stops and resumes ---------------- *)
Suspend(p) ==
    /\ alive[p]
    /\ stops[p] < MaxStops
    /\ alive' = [alive EXCEPT ![p] = FALSE]
    /\ stops' = [stops EXCEPT ![p] = @ + 1]
    /\ UNCHANGED <<store, inflight, listener, room, isHost, roomRef, chess, selectedSquare,
                   validMoves, showResult, autoMovedRef, hbTimer, scanTimer, leaving,
                   history, records>>

Resume(p) ==
    /\ ~alive[p]
    /\ alive' = [alive EXCEPT ![p] = TRUE]
    /\ stops' = stops
    /\ UNCHANGED <<store, inflight, listener, room, isHost, roomRef, chess, localUI,
                   autoMovedRef, hbTimer, scanTimer, leaving, history, records>>

(* ---------------- the program ---------------- *)
Lifecycle ==
    \/ \E p \in Players, private \in {FALSE} : createRoom(p, private)
    \/ joinRoom(Joiner)
    \/ \E p \in Players : ReadyButton(p) /\ handleGuestReady(p)
    \/ \E p \in Players : handleStartGame(p)
    \/ \E p \in Players : handleResign(p)
    \/ \E p \in Players : HomeButton(p) /\ handleGoHome(p)
    \/ \E p \in Players : handleGoHomeDone(p)
    \/ \E p \in Players : handlePlayAgain(p)

Timers ==
    \/ \E p \in Players : updateTimer(p)
    \/ \E p \in Players : sendHeartbeat(p)
    \/ \E p \in Players : checkConnection(p)

Next ==
    \/ Lifecycle
    \/ \E p \in Players, square \in Squares : handleSquareClick(p, square)
    \/ \E p \in Players : handleSendMessage(p)
    \/ Timers
    \/ \E p \in Players : Deliver(p)
    \/ \E d \in ClockSteps : AdvanceClock(d)
    \/ \E p \in Players : Suspend(p)
    \/ \E p \in Players : Resume(p)
    \/ \E p \in Players : unmount(p)

Spec == Init /\ [][Next]_vars

(* ---------------- a game in progress ---------------- *)
(* The state reached by create, join, ready and start once both clients    *)
(* have received the started record: the lobby took `lobby` seconds.       *)
PlayingRoom(lobby) ==
    [code |-> RoomCode, hostId |-> Creator, guestId |-> Joiner, guestReady |-> TRUE,
     status |-> "playing", currentTurn |-> "white", turnStartTime |-> 0,
     fen |-> InitialFen, lastMove |-> NoMove, winner |-> Null, previousLoser |-> Null,
     hostLastActive |-> lobby, guestLastActive |-> lobby,
     disconnectedPlayer |-> Null, disconnectedAt |-> NoTime,
     isPrivate |-> FALSE, createdAt |-> CreatedCap, messages |-> <<>>]

(* both clients are on the game screen of the record r and have received it *)
BothSeeAt(r, hb, scan) ==
    /\ store = r
    /\ room = [p \in Players |-> r]
    /\ inflight = [p \in Players |-> <<>>]
    /\ listener = [p \in Players |-> IF p = Creator THEN "create" ELSE "join"]
    /\ isHost = [p \in Players |-> p = Creator]
    /\ roomRef = [p \in Players |-> TRUE]
    /\ chess = [p \in Players |-> r.fen]
    /\ selectedSquare = [p \in Players |-> 0]
    /\ validMoves = [p \in Players |-> {}]
    /\ showResult = [p \in Players |-> FALSE]
    /\ autoMovedRef = [p \in Players |-> FALSE]
    /\ hbTimer = [p \in Players |-> hb]
    /\ scanTimer = [p \in Players |-> scan]
    /\ alive = [p \in Players |-> TRUE]
    /\ stops = [p \in Players |-> 0]
    /\ leaving = [p \in Players |-> FALSE]
    /\ lastMoves = <<Null, Null>>
    /\ autoCount = [p \in Players |-> 0]
    /\ recordUpdated = [p \in Players |-> FALSE]
    /\ recordCount = [p \in Players |-> 0]

(* ... as the effects leave the timers when the record arrives: the heartbeat *)
(* is sent at once, the scan interval is armed                                *)
BothSee(r) == BothSeeAt(r, 0, ScanPeriod)

StartedState(lobby) == BothSee(PlayingRoom(lobby))

InitPlaying == \E lobby \in {HeartbeatPeriod, ActiveCap} : StartedState(lobby)

(* the coordinators alone: timers, deliveries and the clock, no user intent; *)
(* the guest's client may stop and resume                                    *)
NextPresence ==
    \/ Timers
    \/ \E p \in Players : Deliver(p)
    \/ \E d \in ClockSteps : AdvanceClock(d)
    \/ Suspend(Joiner)
    \/ Resume(Joiner)

SpecPresence == InitPlaying /\ [][NextPresence]_vars

(* both coordinators running, no user intent *)
NextCoordinators ==
    \/ Timers
    \/ \E p \in Players : Deliver(p)
    \/ \E d \in ClockSteps : AdvanceClock(d)

SpecCoordinators == InitPlaying /\ [][NextCoordinators]_vars

(* what the scheduler guarantees: a due callback of a running client runs, a  *)
(* snapshot is delivered, time passes                                         *)
Fairness ==
    /\ \A p \in Players : WF_vars(Deliver(p))
    /\ \A p \in Players : WF_vars(updateTimer(p))
    /\ \A p \in Players : WF_vars(sendHeartbeat(p))
    /\ \A p \in Players : WF_vars(checkConnection(p))
    /\ WF_vars(\E d \in ClockSteps : AdvanceClock(d))

FairCoordinators == SpecCoordinators /\ Fairness

(* the guest's client may stop and then stays silent *)
NextAbsence ==
    \/ NextCoordinators
    \/ Suspend(Joiner)

SpecAbsence == InitPlaying /\ [][NextAbsence]_vars

FairAbsence == SpecAbsence /\ Fairness

(* the guest's client may stop; the host may press the start button it is shown *)
NextPausedStart ==
    \/ NextAbsence
    \/ \E p \in Players : handleStartGame(p)

SpecPausedStart == InitPlaying /\ [][NextPausedStart]_vars

(* the room's life cycle from the lobby on, without the timers *)
NextLobby ==
    \/ Lifecycle
    \/ \E p \in Players : Deliver(p)

SpecLobby == Init /\ [][NextLobby]_vars

(* Scenario A: create, join, ready, start, with time passing in between and *)
(* no other intent or timer                                                 *)
NextScenarioA ==
    \/ \E p \in Players, private \in BOOLEAN : createRoom(p, private)
    \/ joinRoom(Joiner)
    \/ \E p \in Players : ReadyButton(p) /\ handleGuestReady(p)
    \/ \E p \in Players : handleStartGame(p)
    \/ \E p \in Players : Deliver(p)
    \/ \E d \in ClockSteps : AdvanceClock(d)

SpecScenarioA == Init /\ [][NextScenarioA]_vars

(* a game in progress without the timers: the players click squares, resign, *)
(* leave and play again; a user acts on a screen that is at most MaxLag       *)
(* snapshots behind                                                           *)
InitGame == StartedState(HeartbeatPeriod)

Fresh(p) == Len(inflight[p]) <= MaxLag

NextGame ==
    \/ \E p \in Players, square \in Squares : Fresh(p) /\ handleSquareClick(p, square)
    \/ \E p \in Players : Fresh(p) /\ handleResign(p)
    \/ \E p \in Players : Fresh(p) /\ HomeButton(p) /\ handleGoHome(p)
    \/ \E p \in Players : handleGoHomeDone(p)
    \/ \E p \in Players : Fresh(p) /\ handlePlayAgain(p)
    \/ \E p \in Players : Deliver(p)

SpecGame == InitGame /\ [][NextGame]_vars

(* the leave handler and the teardown reached in any state of the record:   *)
(* from the lobby on, and from a game that one side has paused               *)
InitLeave ==
    \/ Init
    \/ \E host \in BOOLEAN : BothSee(PausedRoom(PlayingRoom(ActiveCap), host))

NextLeave ==
    \/ \E p \in Players : createRoom(p, FALSE)
    \/ joinRoom(Joiner)
    \/ \E p \in Players : handleGuestReady(p)
    \/ \E p \in Players : handleStartGame(p)
    \/ \E p \in Players : handleGoHome(p)
    \/ \E p \in Players : handleGoHomeDone(p)
    \/ \E p \in Players : unmount(p)
    \/ \E p \in Players : Deliver(p)

SpecLeave == InitLeave /\ [][NextLeave]_vars

(* the room of Creator whose guest seat a third participant has taken, *)
(* ready or not; Joiner is in the lobby                                *)
TakenRoom(ready) ==
    [NewRoom(Creator, FALSE) EXCEPT !.guestId = Other, !.guestReady = ready,
                                    !.status = IF ready THEN "ready" ELSE "waiting",
                                    !.guestLastActive = 0,
                                    !.createdAt = CreatedCap]

TakenState(ready) ==
    /\ chess = [p \in Players |-> InitialFen]
    /\ store = TakenRoom(ready)
    /\ room = [p \in Players |-> IF p = Creator THEN TakenRoom(ready) ELSE NoRoom]
    /\ inflight = [p \in Players |-> <<>>]
    /\ listener = [p \in Players |-> IF p = Creator THEN "create" ELSE "none"]
    /\ isHost = [p \in Players |-> p = Creator]
    /\ roomRef = [p \in Players |-> p = Creator]
    /\ selectedSquare = [p \in Players |-> 0]
    /\ validMoves = [p \in Players |-> {}]
    /\ showResult = [p \in Players |-> FALSE]
    /\ autoMovedRef = [p \in Players |-> FALSE]
    /\ hbTimer = [p \in Players |-> NoTime]
    /\ scanTimer = [p \in Players |-> NoTime]
    /\ alive = [p \in Players |-> TRUE]
    /\ stops = [p \in Players |-> 0]
    /\ leaving = [p \in Players |-> FALSE]
    /\ lastMoves = <<Null, Null>>
    /\ autoCount = [p \in Players |-> 0]
    /\ recordUpdated = [p \in Players |-> FALSE]
    /\ recordCount = [p \in Players |-> 0]

(* join attempts on an absent room, an open room and a taken room *)
InitJoin ==
    \/ Init
    \/ \E ready \in BOOLEAN : TakenState(ready)

NextJoin ==
    \/ \E p \in Players : createRoom(p, FALSE)
    \/ joinRoom(Joiner)
    \/ \E p \in Players : ReadyButton(p) /\ handleGuestReady(p)
    \/ \E p \in Players : handleStartGame(p)
    \/ \E p \in Players : handleResign(p)
    \/ \E p \in Players : handleGoHome(p)
    \/ \E p \in Players : handleGoHomeDone(p)
    \/ \E p \in Players : Deliver(p)

SpecJoin == InitJoin /\ [][NextJoin]_vars

(* two participants in the lobby enter the code of an open room whose host *)
(* is on a third client                                                    *)
OpenRoom == [NewRoom(Creator, FALSE) EXCEPT !.hostId = Other, !.createdAt = CreatedCap]

InitTwoJoiners ==
    /\ chess = [p \in Players |-> InitialFen]
    /\ store = OpenRoom
    /\ inflight = [p \in Players |-> <<>>]
    /\ listener = [p \in Players |-> "none"]
    /\ room = [p \in Players |-> NoRoom]
    /\ isHost = [p \in Players |-> FALSE]
    /\ roomRef = [p \in Players |-> FALSE]
    /\ selectedSquare = [p \in Players |-> 0]
    /\ validMoves = [p \in Players |-> {}]
    /\ showResult = [p \in Players |-> FALSE]
    /\ autoMovedRef = [p \in Players |-> FALSE]
    /\ hbTimer = [p \in Players |-> NoTime]
    /\ scanTimer = [p \in Players |-> NoTime]
    /\ alive = [p \in Players |-> TRUE]
    /\ stops = [p \in Players |-> 0]
    /\ leaving = [p \in Players |-> FALSE]
    /\ lastMoves = <<Null, Null>>
    /\ autoCount = [p \in Players |-> 0]
    /\ recordUpdated = [p \in Players |-> FALSE]
    /\ recordCount = [p \in Players |-> 0]

NextTwoJoiners ==
    \/ \E p \in Players : joinRoom(p)
    \/ \E p \in Players : ReadyButton(p) /\ handleGuestReady(p)
    \/ \E p \in Players : Deliver(p)
    \/ \E d \in ClockSteps : AdvanceClock(d)

SpecTwoJoiners == InitTwoJoiners /\ [][NextTwoJoiners]_vars

(* both coordinators running while the players chat *)
NextChat ==
    \/ NextCoordinators
    \/ \E p \in Players : Fresh(p) /\ handleSendMessage(p)

SpecChat == InitGame /\ [][NextChat]_vars

(* ... in a game started after a lobby of any length *)
SpecLongLobby == InitPlaying /\ [][NextChat]_vars

(* a game in progress with both coordinators running and the players      *)
(* clicking squares                                                        *)
NextTurns ==
    \/ NextCoordinators
    \/ \E p \in Players, square \in Squares : Fresh(p) /\ handleSquareClick(p, square)

SpecTurns == InitGame /\ [][NextTurns]_vars

(* the coordinators and the clicks of users whose screen is up to date,  *)
(* while the store may reject a move write                               *)
UpToDate(p) == inflight[p] = <<>>

NextRejected ==
    \/ NextCoordinators
    \/ \E p \in Players, square \in Squares : UpToDate(p) /\ handleSquareClick(p, square)
    \/ \E p \in Players, square \in Squares :
          UpToDate(p) /\ handleSquareClickRejected(p, square)
    \/ \E p \in Players : updateTimerRejected(p)

SpecRejected == InitGame /\ [][NextRejected]_vars

(* the heartbeats and the scans of both clients, without the turn timer; *)
(* either client may stop and resume                                    *)
NextStops ==
    \/ \E p \in Players : sendHeartbeat(p)
    \/ \E p \in Players : checkConnection(p)
    \/ \E p \in Players : Deliver(p)
    \/ \E d \in ClockSteps : AdvanceClock(d)
    \/ \E p \in Players : Suspend(p)
    \/ \E p \in Players : Resume(p)

SpecStops == InitGame /\ [][NextStops]_vars

(* the scan at its thresholds: both clients hold a record whose heartbeats  *)
(* and pause are just below, at and just above the delays the scan tests,   *)
(* and the scan interval of each is due                                     *)
GapValues == {RecoverSeconds - 1, RecoverSeconds, StaleSeconds, StaleSeconds + 1}
PauseValues == {0, ForfeitSeconds, ForfeitSeconds + 1}

ThresholdRoom(h, g) ==
    [PlayingRoom(0) EXCEPT !.hostLastActive = h, !.guestLastActive = g]

InitThresholds ==
    \E h \in GapValues, g \in GapValues :
       \/ BothSeeAt(ThresholdRoom(h, g), HeartbeatPeriod, 0)
       \/ \E host \in BOOLEAN, d \in PauseValues :
             BothSeeAt([PausedRoom(ThresholdRoom(h, g), host) EXCEPT !.disconnectedAt = d],
                       HeartbeatPeriod, 0)

NextThresholds ==
    \/ \E p \in Players : checkConnection(p)
    \/ \E p \in Players : Deliver(p)

SpecThresholds == InitThresholds /\ [][NextThresholds]_vars

(* ======================= claims ======================= *)

(* C1: in every reachable state of the Room record, winner is non-null if and *)
(* only if status is finished.                                                *)
C1_WinnerIffFinished ==
    (store # NoRoom) => ((store.winner # Null) <=> (store.status = "finished"))

(* C2: in every reachable state of the Room record, disconnectedPlayer is     *)
(* non-null if and only if status is paused.                                  *)
C2_DisconnectedIffPaused ==
    (store # NoRoom) => ((store.disconnectedPlayer # Null) <=> (store.status = "paused"))

(* C3: within one game, two consecutive move writes (manual or automatic)     *)
(* never store the same currentTurn.                                          *)
C3_TurnAlternates ==
    (lastMoves[1] # Null) => (lastMoves[1] # lastMoves[2])

(* C4: for one value of turnStartTime a participant issues at most one        *)
(* auto-move replace.                                                         *)
C4_OneAutoMovePerTurn ==
    \A p \in Players : autoCount[p] <= 1

Colors == {"white", "black"}

(* the record is playing, c is to move and the turn clock has run out *)
TurnExpired(c) ==
    /\ store # NoRoom
    /\ store.status = "playing"
    /\ store.currentTurn = c
    /\ store.turnStartTime >= TurnSeconds

(* the side to move has a legal move in the stored position *)
HasLegalMove(c) == Moves(WithTurn(store.fen, Letter(c))) # {}

(* a move for c has been committed: the other side is to move on a fresh clock *)
TurnPassed(c) ==
    /\ store # NoRoom
    /\ store.currentTurn = Opposite(c)
    /\ store.turnStartTime < TurnSeconds

(* C5 as stated: once the turn clock of a playing record has run out, a move  *)
(* is eventually committed for the side to move.                              *)
C5_Original ==
    \A c \in Colors : TurnExpired(c) ~> TurnPassed(c)

(* C5: once the turn clock of a playing record has run out and the side to    *)
(* move has a legal move, an auto-move is eventually committed: currentTurn   *)
(* is the opposite color and turnStartTime is refreshed.                      *)
C5_AutoMoveEventually ==
    \A c \in Colors : (TurnExpired(c) /\ HasLegalMove(c)) ~> TurnPassed(c)

(* a run of checkConnection that changes the record into paused or playing *)
PauseOrResumeWrite ==
    /\ \E p \in Players : checkConnection(p)
    /\ store' # store
    /\ store'.status \in {"paused", "playing"}

(* C6: the pause write and the resume write leave winner and turnStartTime as *)
(* they were stored; the resume write changes only status,                    *)
(* disconnectedPlayer and disconnectedAt.                                     *)
C6_PauseResumeFrame ==
    [][PauseOrResumeWrite =>
          /\ store'.winner = store.winner
          /\ store'.turnStartTime = store.turnStartTime
          /\ (store'.status = "playing" =>
                 store' = [store EXCEPT !.status = "playing",
                                        !.disconnectedPlayer = Null,
                                        !.disconnectedAt = NoTime])]_vars

(* the guest's client has stopped: it emits no heartbeat *)
GuestSilent == ~alive[Joiner]

(* C7: if the room is paused with disconnectedPlayer = guest, the guest emits *)
(* no heartbeat and more than 60 s have passed since disconnectedAt, the room *)
(* eventually becomes finished with winner = host and previousLoser = guest.  *)
C7_SilentPeerForfeits ==
    (/\ GuestSilent
     /\ store.status = "paused"
     /\ store.disconnectedPlayer = "guest"
     /\ store.disconnectedAt > ForfeitSeconds)
    ~> (/\ store.status = "finished"
        /\ store.winner = "host"
        /\ store.previousLoser = "guest")

(* C8: if during playing the guest's heartbeat has stopped for more than 20 s *)
(* while the host's coordinator keeps running, the room eventually becomes    *)
(* paused with disconnectedPlayer = guest.                                    *)
C8_SilentPeerPaused ==
    (/\ GuestSilent
     /\ store.status = "playing"
     /\ store.guestLastActive > StaleSeconds)
    ~> (/\ store.status = "paused"
        /\ store.disconnectedPlayer = "guest")

(* the witness of C5: an auto-move has just been committed for white, whose   *)
(* clock had run out with a legal move at hand                                *)
C5_Witness ==
    /\ \E p \in Players : autoCount[p] = 1 /\ room[p].turnStartTime >= TurnSeconds
    /\ store.status = "playing"
    /\ store.currentTurn = "black"
    /\ store.turnStartTime = 0
    /\ store.lastMove # NoMove

(* the host's color the rule gives for a record *)
HostColor(r) == IF r.previousLoser = "guest" THEN "black" ELSE "white"

(* C9: for every participant of the room, the color is a function of          *)
(* previousLoser only: the host (the creator, hostId) is white when           *)
(* previousLoser is host or null and black when it is guest; the guest has    *)
(* the opposite color.                                                        *)
C9_ColorByPreviousLoser ==
    \A p \in Players :
        (room[p] # NoRoom /\ roomRef[p]) =>
            getMyColor(room[p], isHost[p]) =
                IF p = room[p].hostId THEN HostColor(room[p])
                ELSE Opposite(HostColor(room[p]))

(* the witness of C9: a game started after a finished game the host lost, the *)
(* host playing white and the guest black                                     *)
C9_Witness ==
    /\ room[Creator] # NoRoom /\ roomRef[Creator]
    /\ room[Joiner] # NoRoom /\ roomRef[Joiner]
    /\ room[Creator].status = "playing" /\ room[Creator].previousLoser = "host"
    /\ room[Joiner].status = "playing" /\ room[Joiner].previousLoser = "host"
    /\ getMyColor(room[Creator], isHost[Creator]) = "white"
    /\ getMyColor(room[Joiner], isHost[Joiner]) = "black"

(* C10: in the sequence create, join, ready, start the record is waiting with *)
(* guestReady false after create and after join, ready after the guest's      *)
(* ready, and after start it is playing with turnStartTime the time of the    *)
(* start event and currentTurn white.                                         *)
C10_ScenarioA ==
    [][/\ (store = NoRoom /\ store' # NoRoom) =>
             (store'.status = "waiting" /\ store'.guestReady = FALSE /\ store'.guestId = Null)
       /\ (store # NoRoom /\ store.guestId = Null /\ store'.guestId # Null) =>
             (store'.status = "waiting" /\ store'.guestReady = FALSE)
       /\ (\E p \in Players : handleGuestReady(p)) =>
             (store'.status = "ready" /\ store'.guestReady = TRUE)
       /\ (\E p \in Players : handleStartGame(p)) =>
             (/\ store'.status = "playing"
              /\ store'.turnStartTime = 0
              /\ store'.currentTurn = "white")]_vars

(* the witness of C10: the game has been started some time after the room was *)
(* created, by a host that saw the guest ready                                *)
C10_Witness ==
    /\ store # NoRoom
    /\ store.status = "playing"
    /\ store.guestId = Joiner
    /\ store.guestReady = TRUE
    /\ store.turnStartTime = 0
    /\ store.createdAt > 0
    /\ store.currentTurn = "white"

(* the color the rule gives to the loser of the previous game (the host when *)
(* there is none)                                                            *)
LoserColor(r) == getMyColor(r, r.previousLoser # "guest")

(* C11: play-again writes a record that is playing, with the initial          *)
(* position, winner null, lastMove cleared, turnStartTime = now, the          *)
(* previousLoser of the room it is applied to, and currentTurn the color the  *)
(* rule gives to the previous loser.                                          *)
C11_PlayAgain ==
    [][\A p \in Players :
          handlePlayAgain(p) =>
             /\ store'.status = "playing"
             /\ store'.fen = InitialFen
             /\ store'.winner = Null
             /\ store'.lastMove = NoMove
             /\ store'.turnStartTime = 0
             /\ store'.previousLoser = room[p].previousLoser
             /\ store'.currentTurn = LoserColor(store')]_vars

(* the witness of C11: play-again has just been written after a game the      *)
(* guest lost with black to move (the guest's mirror still shows that game)   *)
C11_Witness ==
    /\ store.status = "playing"
    /\ store.fen = InitialFen
    /\ store.lastMove = NoMove
    /\ store.turnStartTime = 0
    /\ store.previousLoser = "guest"
    /\ store.currentTurn = "white"
    /\ room[Joiner] # NoRoom
    /\ room[Joiner].status = "finished"
    /\ room[Joiner].currentTurn = "black"

(* the side of participant p in the record r *)
SideOf(p, r) == IF p = r.hostId THEN "host" ELSE "guest"

(* C12: resign by p, whose record shows playing, writes that record with      *)
(* status = finished, winner = the opponent of p and previousLoser = p,       *)
(* position, currentTurn and turnStartTime as they were; while p's record     *)
(* shows any other status resign is not accepted.                             *)
C12_Resign ==
    [][\A p \in Players :
          /\ handleResign(p) =>
                /\ room[p].status = "playing"
                /\ store'.status = "finished"
                /\ store'.winner = OtherRole(SideOf(p, room[p]))
                /\ store'.previousLoser = SideOf(p, room[p])
                /\ store'.fen = room[p].fen
                /\ store'.currentTurn = room[p].currentTurn
                /\ store'.turnStartTime = room[p].turnStartTime
                /\ (room[p] = store =>
                       store' = [store EXCEPT !.status = "finished",
                                              !.winner = OtherRole(SideOf(p, store)),
                                              !.previousLoser = SideOf(p, store)])
          /\ (room[p] # NoRoom /\ room[p].status # "playing") =>
                ~ENABLED handleResign(p)]_vars

(* the witness of C12: the guest has resigned a game in which a move had been *)
(* made                                                                       *)
C12_Witness ==
    /\ store.status = "finished"
    /\ store.winner = "host"
    /\ store.previousLoser = "guest"
    /\ store.lastMove # NoMove
    /\ store.currentTurn = "black"
    /\ room[Joiner] # NoRoom
    /\ room[Joiner].status = "playing"
    /\ room[Joiner].fen = store.fen

(* C13: leave by p, whose record shows playing or paused, writes that record  *)
(* with status = finished, winner = the opponent of p and previousLoser = p,  *)
(* whichever side the record marks as disconnected.                           *)
C13_LeaveForfeits ==
    [][\A p \in Players :
          (handleGoHome(p) /\ room[p].status \in {"playing", "paused"}) =>
                /\ store' = [room[p] EXCEPT !.status = "finished",
                                            !.winner = OtherRole(SideOf(p, room[p])),
                                            !.previousLoser = SideOf(p, room[p])]
                /\ store'.winner # store'.previousLoser]_vars

(* the witness of C13: the host has left a paused game in which the guest was *)
(* the side marked disconnected                                               *)
C13_Witness ==
    /\ store # NoRoom
    /\ store.status = "finished"
    /\ store.disconnectedPlayer = "guest"
    /\ store.previousLoser = "host"
    /\ store.winner = "guest"
    /\ room[Creator] = NoRoom

(* the snapshot the store hands to the listener that joinRoom registered *)
JoinData(p) == Head(inflight[p])

JoinDelivery(p) == Deliver(p) /\ listener[p] = "join"

(* C14: a join attempt that is shown no record (RoomNotFound) writes nothing;  *)
(* one that is shown a record whose guestId is another participant (RoomFull)  *)
(* leaves the record unchanged; the join write is issued only for a record     *)
(* whose guestId is null and sets guestId = joiner, guestReady = false,        *)
(* status = waiting, leaving hostId, position, currentTurn and winner as they  *)
(* were. Both rejections detach the listener.                                  *)
C14_AttemptJoin ==
    [][\A p \in Players :
          JoinDelivery(p) =>
             /\ JoinData(p) = NoRoom =>
                   /\ store' = store
                   /\ roomRef[p] => listener'[p] = "none"
             /\ (JoinData(p) # NoRoom /\ JoinData(p).guestId \notin {Null, p}) =>
                   /\ store' = store
                   /\ roomRef[p] => listener'[p] = "none"
             /\ store' # store =>
                   /\ JoinData(p) # NoRoom
                   /\ JoinData(p).guestId = Null
                   /\ store'.guestId = p
                   /\ store'.guestReady = FALSE
                   /\ store'.status = "waiting"
                   /\ store'.hostId = JoinData(p).hostId
                   /\ store'.fen = JoinData(p).fen
                   /\ store'.currentTurn = JoinData(p).currentTurn
                   /\ store'.winner = JoinData(p).winner
             /\ (JoinData(p) # NoRoom /\ JoinData(p).guestId = Null /\ roomRef[p]) =>
                   store' # NoRoom /\ store'.guestId = p]_vars

(* the witness of C14: Joiner's attempt on the room taken by a third        *)
(* participant was refused and the record is as it was                      *)
C14_Witness ==
    /\ store # NoRoom
    /\ store.guestId = Other
    /\ roomRef[Joiner]
    /\ listener[Joiner] = "none"
    /\ room[Joiner] = NoRoom

(* C15: in every reachable state of the Room record, status ready or playing *)
(* implies that guestId is non-null.                                         *)
C15_GuestPresent ==
    (store # NoRoom /\ store.status \in {"ready", "playing"}) => store.guestId # Null

(* C18: the Room record is deleted only while its guestId is null: no step *)
(* removes a record that has a guest.                                       *)
C18_DeletedOnlyWithoutGuest ==
    [][(store # NoRoom /\ store' = NoRoom) => store.guestId = Null]_vars

(* C19: once the stored winner is non-null, no write replaces it by a different *)
(* non-null winner.                                                            *)
C19_WinnerSetOnce ==
    [][(store # NoRoom /\ store' # NoRoom /\ store.winner # Null /\ store'.winner # Null)
          => store'.winner = store.winner]_vars

(* the stored heartbeat timestamp of the peer of p *)
PeerLastActive(r, p) == IF isHost[p] THEN r.guestLastActive ELSE r.hostLastActive

(* C20: no write of a participant changes the stored heartbeat timestamp of *)
(* its peer: hostLastActive changes only by the host's writes and            *)
(* guestLastActive only by the guest's.                                      *)
C20_HeartbeatOwned ==
    [][\A p \in Players :
          ((updateTimer(p) \/ checkConnection(p) \/ sendHeartbeat(p))
             /\ store # NoRoom /\ store' # NoRoom)
          => PeerLastActive(store', p) = PeerLastActive(store, p)]_vars

(* p has issued a store write in this step *)
Issued == store' # store \/ inflight' # inflight

(* the color of p in the record r, by its identity *)
ColorOf(p, r) == getMyColor(r, p = r.hostId)

(* C17: an intent or tick issues a store write only if it passes its guard: *)
(* a square click only while p's record shows playing with p to move, from  *)
(* a selected square that holds a piece to one of its legal destinations;   *)
(* start only by the host with guestReady true; ready only by the guest;    *)
(* resign only while playing; the timeout only for the side to move and     *)
(* only when it has a legal move.                                           *)
C17_RejectedIntentsWriteNothing ==
    [][\A p \in Players :
          /\ \A square \in Squares :
                (handleSquareClick(p, square) /\ Issued) =>
                   /\ room[p].status = "playing"
                   /\ room[p].currentTurn = ColorOf(p, room[p])
                   /\ selectedSquare[p] # 0
                   /\ PieceAt(chess[p], selectedSquare[p]) # "none"
                   /\ <<selectedSquare[p], square>> \in Moves(chess[p])
          /\ (handleStartGame(p) /\ Issued) =>
                (p = room[p].hostId /\ room[p].guestReady = TRUE)
          /\ (handleGuestReady(p) /\ Issued) => p # room[p].hostId
          /\ (handleResign(p) /\ Issued) => room[p].status = "playing"
          /\ (updateTimer(p) /\ Issued) =>
                /\ room[p].status = "playing"
                /\ room[p].currentTurn = ColorOf(p, room[p])
                /\ Moves(WithTurn(chess[p], Letter(ColorOf(p, room[p])))) # {}]_vars

(* C16: the result of a game is recorded once: since its mirror last showed *)
(* a game starting, no client has called updatePlayerRecord more than once, *)
(* and a client whose mirror shows a winner has called it.                   *)
C16_RecordedOnce ==
    \A p \in Players :
        /\ recordCount[p] <= 1
        /\ (room[p] # NoRoom /\ room[p].winner # Null) => recordCount[p] = 1

(* a step of the clock, which ages every timestamp *)
ClockStep == \E d \in ClockSteps : AdvanceClock(d)

(* C21: while the stored status stays playing, no write sets the stored      *)
(* turnStartTime back: the age of the stored turnStartTime grows only by the *)
(* passing of time.                                                          *)
C21_TurnStartMonotonic ==
    [][(/\ store # NoRoom /\ store' # NoRoom
        /\ store.status = "playing" /\ store'.status = "playing"
        /\ ~ClockStep)
          => store'.turnStartTime <= store.turnStartTime]_vars

(* the sequence a is a prefix of the sequence b *)
IsPrefix(a, b) == Len(a) <= Len(b) /\ SubSeq(b, 1, Len(a)) = a

(* C22: the stored messages sequence is append-only: every step leaves the *)
(* previous sequence as a prefix of the new one.                            *)
C22_MessagesAppendOnly ==
    [][(store # NoRoom /\ store' # NoRoom) => IsPrefix(store.messages, store'.messages)]_vars

C24_StartOnlyWhenReady ==
    [][\A p \in Players :
          handleStartGame(p) =>
              /\ isHost[p]
              /\ room[p].guestReady = TRUE
              /\ room[p].status = "ready"]_vars

(* C26: a play-again that replaces the record is issued by the host on a   *)
(* record whose status is finished; the guest's play-again, and one issued *)
(* in any other status, writes nothing.                                    *)
C26_PlayAgainOnlyHostFinished ==
    [][\A p \in Players :
          handlePlayAgain(p) =>
              /\ isHost[p]
              /\ room[p].status = "finished"]_vars

(* C27: the timeout replaces the record only when p's record shows playing, *)
(* p's color to move and a turn clock of 30 s or more; a click replaces the *)
(* record only when p's record shows playing and p's color to move.         *)
C27_MoveOnlyOnOwnTurn ==
    [][\A p \in Players :
          /\ (updateTimer(p) /\ Issued) =>
                /\ room[p].status = "playing"
                /\ room[p].currentTurn = ColorOf(p, room[p])
                /\ room[p].turnStartTime >= TurnSeconds
          /\ \A square \in Squares :
                (handleSquareClick(p, square) /\ Issued) =>
                   /\ room[p].status = "playing"
                   /\ room[p].currentTurn = ColorOf(p, room[p])]_vars

(* the witness of C27: two moves of this game are stored, the later one by *)
(* black, and a timeout has written one                                    *)
C27_Witness ==
    /\ store # NoRoom
    /\ store.status = "playing"
    /\ lastMoves = <<"black", "white">>
    /\ \E p \in Players : autoCount[p] > 0

(* C25: a ready that replaces the record is issued by the guest on a record *)
(* whose status is waiting, and stores guestReady = true and status = ready; *)
(* on a playing, paused or finished record the ready writes nothing.         *)
C25_ReadyOnlyWhenWaiting ==
    [][\A p \in Players :
          handleGuestReady(p) =>
              /\ ~isHost[p]
              /\ room[p].status = "waiting"
              /\ store'.guestReady = TRUE
              /\ store'.status = "ready"]_vars

(* both scans are due on the same playing record and both find the peer stale *)
BothScansDeclare ==
    /\ \A p \in Players : alive[p] /\ roomRef[p] /\ scanTimer[p] = 0
    /\ room[Creator] = room[Joiner]
    /\ \A p \in Players : PeerStale(room[p], isHost[p])

(* C28: when both scans declare the pause from the same playing record, the *)
(* two writes carry the same disconnectedPlayer.                            *)
C28_SamePausedSide ==
    BothScansDeclare =>
        PausedRoom(room[Creator], isHost[Creator]).disconnectedPlayer
            = PausedRoom(room[Joiner], isHost[Joiner]).disconnectedPlayer

(* w is a forfeit write built from the record r: it differs from r in the *)
(* fields the forfeit sets and in nothing else                             *)
BuiltFrom(w, r) ==
    /\ w # NoRoom /\ r # NoRoom
    /\ w.status = "finished"
    /\ [w EXCEPT !.status = r.status, !.winner = r.winner,
                 !.previousLoser = r.previousLoser,
                 !.disconnectedPlayer = r.disconnectedPlayer,
                 !.disconnectedAt = r.disconnectedAt] = r

(* the forfeit writes built from p's record among the snapshots in q *)
ForfeitsInFlight(p, q) == {w \in {q[i] : i \in DOMAIN q} : BuiltFrom(w, room[p])}

(* the scan of p is due on a paused record past the forfeit delay, and the *)
(* forfeit the peer's scan has written from the same record is in flight   *)
SecondForfeitDue(p) ==
    /\ alive[p] /\ roomRef[p] /\ scanTimer[p] = 0
    /\ ForfeitDue(room[p])
    /\ ForfeitsInFlight(p, inflight[p]) # {}

InFlightAfter(p) == {inflight'[p][i] : i \in DOMAIN inflight'[p]}

(* C30: the delays of the scan are inclusive for the pause and the forfeit: *)
(* a scan that finds the peer's heartbeat 20 s old or more on a playing     *)
(* record writes the pause, one that finds disconnectedAt 60 s old or more  *)
(* on a paused record writes the forfeit; and a scan writes the resume only *)
(* when the peer's heartbeat is less than 15 s old.                         *)
C30_InclusiveThresholds ==
    [][\A p \in Players :
          checkConnection(p) =>
              /\ (/\ room[p].status = "playing"
                  /\ room[p].disconnectedPlayer = Null
                  /\ OpponentLastActive(room[p], isHost[p]) >= StaleSeconds)
                    => \E w \in InFlightAfter(p) : w.status = "paused"
              /\ (/\ room[p].status = "paused"
                  /\ room[p].disconnectedAt # NoTime
                  /\ room[p].disconnectedAt >= ForfeitSeconds)
                    => \E w \in InFlightAfter(p) : w.status = "finished"
              /\ (room[p].status = "paused" /\ store' # store /\ store'.status = "playing")
                    => OpponentLastActive(room[p], isHost[p]) < RecoverSeconds]_vars

(* every whole snapshot of the room: the stored record, the mirrors and the *)
(* snapshots in flight                                                      *)
Snapshots ==
    ({store} \cup {room[p] : p \in Players}
        \cup UNION {{inflight[p][i] : i \in DOMAIN inflight[p]} : p \in Players})
      \ {NoRoom}

(* C40: in every snapshot whose status is playing the colors of host and   *)
(* guest differ and exactly one of them is to move; in every other snapshot *)
(* neither is to move.                                                      *)
C40_ExactlyOneToMove ==
    \A r \in Snapshots :
        /\ r.status = "playing" =>
              /\ getMyColor(r, TRUE) # getMyColor(r, FALSE)
              /\ isMyTurn(r, TRUE) # isMyTurn(r, FALSE)
        /\ r.status # "playing" => (~isMyTurn(r, TRUE) /\ ~isMyTurn(r, FALSE))

(* the witness of C40: in the game after one the guest lost, the guest has *)
(* moved with white and the host is to move                                *)
C40_Witness ==
    /\ store # NoRoom
    /\ store.status = "playing"
    /\ store.previousLoser = "guest"
    /\ store.lastMove # NoMove
    /\ store.currentTurn = "black"
    /\ isMyTurn(store, TRUE)
    /\ ~isMyTurn(store, FALSE)

(* C38: one run of the scan issues at most one replace; in particular, on a *)
(* paused record past the forfeit delay whose peer heartbeat is less than   *)
(* 15 s old it does not write the forfeit and then the resume over it.       *)
C38_OneWritePerScan ==
    [][\A p \in Players :
          (checkConnection(p) /\ roomRef[p]) =>
              /\ Len(ScanWrites(room[p], isHost[p])) <= 1
              /\ (ForfeitDue(room[p]) /\ PeerRecovered(room[p], isHost[p])) =>
                    store'.status # "playing"]_vars

(* C31: once p has left its room (the leave handler has run to its end and  *)
(* cleared roomRef), p's listener no longer fills p's local record: it stays *)
(* absent whatever is stored later, and with it the timers of p stay off.    *)
C31_LeftStaysLeft ==
    \A p \in Players :
        ~roomRef[p] =>
            /\ room[p] = NoRoom
            /\ hbTimer[p] = NoTime
            /\ scanTimer[p] = NoTime

(* p is attempting to join: its joinRoom callback is registered and p has *)
(* not yet seen itself in the room                                        *)
Joining(p) == listener[p] = "join" /\ roomRef[p] /\ room[p] = NoRoom /\ ~leaving[p]

(* C36: the stored guestId goes from null to a participant only by the join *)
(* write of a participant that is attempting to join; after the guest has   *)
(* left (guestId written to null) no listener and no other write puts it    *)
(* back.                                                                    *)
C36_GuestOnlyByJoin ==
    [][(/\ store # NoRoom /\ store' # NoRoom
        /\ store.guestId = Null /\ store'.guestId # Null)
          => \E p \in Players : Joining(p) /\ Deliver(p)]_vars

(* The fields of the stored record that describe the position.              *)
Position(r) == <<r.fen, r.currentTurn, r.lastMove>>

(* C33: the stored position, currentTurn and lastMove change only through   *)
(* a move, an auto-move or a play-again write; a chat, declare-paused,      *)
(* resume or ready write never reverts a move the peer has stored.          *)
C33_PositionOnlyByMoves ==
    [][(store # NoRoom /\ store' # NoRoom /\ Position(store') # Position(store))
          => \/ \E p \in Players : updateTimer(p)
             \/ \E p \in Players, square \in Squares : handleSquareClick(p, square)
             \/ \E p \in Players : handlePlayAgain(p)]_vars

(* C34: once the stored record is finished with winner w it stays finished  *)
(* with winner w until a play-again write; no write built from a stale      *)
(* playing mirror puts it back to playing or clears the winner.             *)
C34_FinishedDurable ==
    [][(/\ store # NoRoom /\ store' # NoRoom
        /\ store.status = "finished" /\ store.winner # Null
        /\ (store'.status # "finished" \/ store'.winner # store.winner))
          => \E p \in Players : handlePlayAgain(p)]_vars

(* C35: once the record has been deleted it stays absent until a room is    *)
(* created: no other write, whole or of one field, makes a record appear.   *)
C35_DeletedStaysAbsent ==
    [][(store = NoRoom /\ store' # NoRoom)
          => \E p \in Players, private \in BOOLEAN : createRoom(p, private)]_vars

(* the scan of p declares its peer disconnected *)
DeclaresPaused(p) == checkConnection(p) /\ roomRef[p] /\ PeerStale(room[p], isHost[p])

(* C37: while both coordinators run, no scan declares the peer disconnected, *)
(* whatever the age of the stored heartbeats at the start of the game.       *)
C37_LiveNeverDeclared ==
    [][\A p \in Players : ~DeclaresPaused(p)]_vars

(* C39: when two participants join the same open room concurrently, the one *)
(* whose join was overwritten keeps no mirror of the room: once no snapshot *)
(* is in flight, a participant holding a mirror is the stored guest.        *)
C39_OneGuest ==
    (\A q \in Players : inflight[q] = <<>>)
        => \A p \in Players : room[p] # NoRoom => store.guestId = p

(* the store rejects the move write or the auto-move write of p *)
WriteRejected(p) ==
    \/ updateTimerRejected(p)
    \/ \E square \in Squares : handleSquareClickRejected(p, square)

(* C32: when the write of a move or an auto-move fails, the local position  *)
(* stays the one last observed and a failed auto-move remains due, so that  *)
(* a later tick retries it.                                                 *)
C32_FailedWriteNotSuccess ==
    [][\A p \in Players :
          WriteRejected(p) =>
              /\ chess'[p] = room[p].fen
              /\ updateTimerRejected(p) => ~autoMovedRef'[p]]_vars
====
